---- MODULE Spec2Model ----
(***************************************************************************)
(* Turn relay of the Anshu backend prototypes: the HTTP handlers           *)
(* (/transcribe-file, /speak, /process-raw-audio) and the streaming        *)
(* /live-stt WebSocket handler, with the three upstream services           *)
(* (transcription, generation, synthesis) as nondeterministic black boxes. *)
(* A JavaScript string is a sequence of one-character strings.             *)
(***************************************************************************)
EXTENDS Integers, Sequences, FiniteSets, TLC

\* ------------------------------------------------------------ JS strings

SP == " "
NL == "\n"
\* the backquote character (written BQ: a string of the module cannot hold it)
BT == "BQ"
DOT == "."

\* the value of a property that is absent from a request (JS undefined)
Undef == <<"undefined">>

\* JS truthiness of a string-or-undefined value: the empty string and
\* undefined are falsy
Falsy(v) == v = Undef \/ v = <<>>

IsWs(c) == c \in {SP, NL}

IsPunct(c) == c \in {DOT, ",", "?", "!", ";"}

RECURSIVE TrimStart(_)
TrimStart(s) == IF s # <<>> /\ IsWs(Head(s)) THEN TrimStart(Tail(s)) ELSE s

RECURSIVE TrimEnd(_)
TrimEnd(s) ==
    IF s # <<>> /\ IsWs(s[Len(s)]) THEN TrimEnd(SubSeq(s, 1, Len(s) - 1)) ELSE s

\* String.prototype.trim
Trim(s) == TrimEnd(TrimStart(s))

\* String.prototype.startsWith / endsWith
StartsWith(s, p) == Len(s) >= Len(p) /\ SubSeq(s, 1, Len(p)) = p

EndsWith(s, p) == Len(s) >= Len(p) /\ SubSeq(s, Len(s) - Len(p) + 1, Len(s)) = p

\* String.prototype.split on the newline: a list of lines, one empty line for
\* the empty string
RECURSIVE Split(_)
Split(s) ==
    IF \E i \in 1..Len(s) : s[i] = NL
    THEN LET i == CHOOSE k \in 1..Len(s) : s[k] = NL /\ \A j \in 1..(k - 1) : s[j] # NL
         IN  <<SubSeq(s, 1, i - 1)>> \o Split(SubSeq(s, i + 1, Len(s)))
    ELSE <<s>>

\* Array.prototype.join on the newline
RECURSIVE Join(_)
Join(lines) ==
    IF lines = <<>> THEN <<>>
    ELSE IF Len(lines) = 1 THEN lines[1]
    ELSE lines[1] \o <<NL>> \o Join(Tail(lines))

\* Array.prototype.join on the empty string, of the texts of the words
RECURSIVE Concat(_)
Concat(texts) == IF texts = <<>> THEN <<>> ELSE Head(texts) \o Concat(Tail(texts))

\* Array.prototype.slice(1, -1)
Slice1m1(lines) == IF Len(lines) <= 2 THEN <<>> ELSE SubSeq(lines, 2, Len(lines) - 1)

\* lines.shift(); lines.pop();
ShiftPop(lines) ==
    LET shifted == IF lines = <<>> THEN <<>> ELSE Tail(lines)
    IN  IF shifted = <<>> THEN <<>> ELSE SubSeq(shifted, 1, Len(shifted) - 1)

Fence == <<BT, BT, BT>>

IsFenced(t) == StartsWith(t, Fence) /\ EndsWith(t, Fence)

\* replace(/(\s+)([.,?!;])/g, $2): drop each whitespace run that stands
\* directly before a punctuation mark
RECURSIVE WsRun(_)
WsRun(s) == IF s # <<>> /\ IsWs(Head(s)) THEN 1 + WsRun(Tail(s)) ELSE 0

RECURSIVE DropWsBeforePunct(_)
DropWsBeforePunct(s) ==
    IF s = <<>> THEN <<>>
    ELSE IF IsWs(Head(s))
    THEN LET k == WsRun(s)
             rest == SubSeq(s, k + 1, Len(s))
         IN  IF rest # <<>> /\ IsPunct(Head(rest))
             THEN DropWsBeforePunct(rest)
             ELSE SubSeq(s, 1, k) \o DropWsBeforePunct(rest)
    ELSE <<Head(s)>> \o DropWsBeforePunct(Tail(s))

\* replace(/\s+/g, one space): every whitespace run becomes one space
RECURSIVE CollapseWs(_)
CollapseWs(s) ==
    IF s = <<>> THEN <<>>
    ELSE IF IsWs(Head(s))
    THEN <<SP>> \o CollapseWs(SubSeq(s, WsRun(s) + 1, Len(s)))
    ELSE <<Head(s)>> \o CollapseWs(Tail(s))

\* Array.prototype.join on one space, of the texts of the words
RECURSIVE JoinSp(_)
JoinSp(texts) ==
    IF texts = <<>> THEN <<>>
    ELSE IF Len(texts) = 1 THEN texts[1]
    ELSE texts[1] \o <<SP>> \o JoinSp(Tail(texts))

\* ------------------------------------------------------------ voice table

MAX_RETRIES == 3

VoiceKeys == {"en", "es", "fr", "de", "ja", "ru", "hi", "ta", "te", "ml", "kn"}

VoiceLocale ==
    [en |-> "en-US", es |-> "es-ES", fr |-> "fr-FR", de |-> "de-DE",
     ja |-> "ja-JP", ru |-> "ru-RU", hi |-> "hi-IN", ta |-> "ta-IN",
     te |-> "te-IN", ml |-> "ml-IN", kn |-> "kn-IN"]

VoiceName ==
    [en |-> "en-US-Neural2-J", es |-> "es-ES-Wavenet-C", fr |-> "fr-FR-Wavenet-B",
     de |-> "de-DE-Wavenet-E", ja |-> "ja-JP-Wavenet-D", ru |-> "ru-RU-Wavenet-C",
     hi |-> "hi-IN-Wavenet-C", ta |-> "ta-IN-Wavenet-D", te |-> "te-IN-Wavenet-C",
     ml |-> "ml-IN-Wavenet-B", kn |-> "kn-IN-Wavenet-B"]

VOICE_MAP ==
    [k \in VoiceKeys |->
        [key |-> k, languageCode |-> VoiceLocale[k], name |-> VoiceName[k],
         ssmlGender |-> "MALE"]]

\* the fixed voice of the variants that have no voice table
FixedVoice ==
    [key |-> "fixed", languageCode |-> "en-US", name |-> "en-US-Neural2-D",
     ssmlGender |-> "none"]

\* a language code absent from the request (JS undefined)
NoCode == "<absent>"

\* JS undefined as the value of a table lookup
NoVoice ==
    [key |-> "<undefined>", languageCode |-> "", name |-> "", ssmlGender |-> ""]

\* VOICE_MAP is an object literal: a key it does not define is looked up in
\* Object.prototype, whose members are (truthy) functions
ObjectPrototypeProps == {"constructor", "toString"}

InheritedMember(k) ==
    [key |-> "<inherited>", languageCode |-> "", name |-> k, ssmlGender |-> ""]

\* VOICE_MAP[code]
VoiceLookup(code) ==
    IF code \in VoiceKeys THEN VOICE_MAP[code]
    ELSE IF code \in ObjectPrototypeProps THEN InheritedMember(code)
    ELSE NoVoice

\* req.body.targetLangCode || 'en'
OrEn(code) == IF code = NoCode \/ code = "" THEN "en" ELSE code

\* const { targetLangCode = 'en' } = req.body
DefaultEn(code) == IF code = NoCode THEN "en" ELSE code

\* VOICE_MAP[code] || VOICE_MAP['en']
VoiceOrEn(code) == IF VoiceLookup(code) = NoVoice THEN VOICE_MAP["en"] ELSE VoiceLookup(code)

\* ------------------------------------------------------------ HTTP routes

\* enh_transcribe   enhancedserver.js POST /transcribe-file
\* p3_transcribe    unnamed/part_003  POST /transcribe-file
\* srv_transcribe   server.js and unnamed/part_004 POST /transcribe-file
\* he_raw           heserver.js POST /process-raw-audio
\* enh_speak        enhancedserver.js, part_003, part_004 POST /speak
\* p6_transcribe    unnamed/part_006 POST /transcribe-file
\* p6_speak         unnamed/part_006 POST /speak
StrictRoutes == {"enh_transcribe", "p3_transcribe", "srv_transcribe"}

FileRoutes == StrictRoutes \cup {"he_raw", "p6_transcribe"}

SpeakRoutes == {"enh_speak", "p6_speak"}

RetryRoutes == StrictRoutes \cup {"he_raw", "enh_speak"}

Routes == FileRoutes \cup SpeakRoutes

\* a retry loop that runs once more
RetriesOneMore(r) == IF r \in RetryRoutes THEN MAX_RETRIES + 1 ELSE 1

\* the number of generation attempts a route makes
Retries(r) == IF r \in RetryRoutes THEN MAX_RETRIES ELSE 1

\* the server process a route belongs to
Server(r) ==
    CASE r \in {"enh_transcribe", "enh_speak"} -> "enhancedserver"
      [] r \in {"p6_transcribe", "p6_speak"} -> "part_006"
      [] OTHER -> r

Servers == {Server(r) : r \in Routes}

\* a word of a transcription result without a language tag
NoLang == "<none>"

WordTexts(words) == [i \in 1..Len(words) |-> words[i].text]

\* the transcript a file route builds from the words of the result
Transcript(r, words) ==
    IF r = "p6_transcribe"
    THEN DropWsBeforePunct(Trim(CollapseWs(JoinSp(WordTexts(words)))))
    ELSE Trim(DropWsBeforePunct(Concat(WordTexts(words))))

\* the callback of result.words.map in server.js, heserver.js, part_004:
\* spokenLangCode is assigned while it still is 'en'
RECURSIVE SpokenWhileEn(_, _)
SpokenWhileEn(words, cur) ==
    IF words = <<>> THEN cur
    ELSE SpokenWhileEn(Tail(words),
            IF Head(words).language # NoLang /\ cur = "en"
            THEN Head(words).language ELSE cur)

\* the callback in part_003: req.spokenLangCode is assigned while it is unset
RECURSIVE SpokenWhileUnset(_, _)
SpokenWhileUnset(words, cur) ==
    IF words = <<>> THEN cur
    ELSE SpokenWhileUnset(Tail(words),
            IF Head(words).language # NoLang /\ cur = NoCode
            THEN Head(words).language ELSE cur)

\* the spoken-language code after the words were mapped
SpokenLang(r, words) ==
    CASE r = "enh_transcribe" -> "en"
      [] r = "p3_transcribe" -> OrEn(SpokenWhileUnset(words, NoCode))
      [] r \in {"srv_transcribe", "he_raw"} -> SpokenWhileEn(words, "en")
      [] OTHER -> "en"

\* the fence stripping of enhancedserver.js and part_003 (shift and pop)
StripFenceShiftPop(t) == IF IsFenced(t) THEN Trim(Join(ShiftPop(Split(t)))) ELSE t

\* the fence stripping of server.js, heserver.js, part_004 and /live-stt
StripFenceSlice(t) == IF IsFenced(t) THEN Trim(Join(Slice1m1(Split(t)))) ELSE t

\* the text a route derives from the raw text of the generation result
PostProcess(r, raw) ==
    CASE r \in {"enh_transcribe", "p3_transcribe"} -> StripFenceShiftPop(Trim(raw))
      [] r \in {"srv_transcribe", "he_raw"} -> StripFenceSlice(Trim(raw))
      [] r = "enh_speak" -> Trim(raw)
      [] OTHER -> raw

\* a backoff that does not grow
BackoffMsFixed(attempt) == 1000

\* Math.pow(2, attempt) * 1000
BackoffMs(attempt) == (2 ^ attempt) * 1000

\* ------------------------------------------------------------ inputs

\* the requests a server handles one after the other
MaxRequests == 2

\* target-language codes a client sends
LangInputs == {NoCode, "", "en", "hi", "xx", "constructor"}

\* texts a client posts to /speak
TextInputs == {Undef, <<>>, <<SP>>, <<"a">>, <<SP, "a", NL>>}

\* word lists the transcription service returns
SttResults ==
    { <<>>,
      <<[text |-> <<SP>>, language |-> NoLang]>>,
      <<[text |-> <<"a">>, language |-> NoLang]>>,
      <<[text |-> <<"a">>, language |-> "hi"], [text |-> <<SP, DOT>>, language |-> "es"]>>,
      <<[text |-> <<"a">>, language |-> NoLang], [text |-> <<SP, "b">>, language |-> "en"],
        [text |-> <<"c">>, language |-> "hi"]>> }

\* raw texts the generation service returns
GenTexts ==
    { <<>>, <<SP>>, <<"a">>, <<SP, "a", NL>>,
      Fence,
      Fence \o <<"a">> \o Fence,
      Fence \o <<NL>> \o Fence,
      Fence \o <<NL, SP, NL>> \o Fence,
      Fence \o <<NL, "a", NL>> \o Fence,
      Fence \o <<"j", NL, "a", NL, "b", NL>> \o Fence }

\* messages of the errors an upstream call throws
Errors == {"E1", "E2"}

\* ------------------------------------------------------------ HTTP handler

VARIABLES
    server,             \* the server process (the file that was started)
    route,              \* the route of the request being handled
    req,                \* the request
    pc,                 \* where the handler is suspended
    attempt,            \* the loop variable of the retry loop
    transcribedText,
    spokenLangCode,
    targetLangCode,
    ttsVoiceConfig,
    geminiTextResponse,
    log,                \* the upstream calls, their outcomes and the waits of this request
    response,           \* the response sent to the client
    served,             \* requests received so far
    missPolicy,         \* what each server did with an unknown target-language code
    fileExists,         \* the temporary audio file of the request is on disk
    unlinkThrew         \* fs.unlinkSync has thrown while the request was handled

httpVars ==
    <<server, route, req, pc, attempt, transcribedText, spokenLangCode, targetLangCode,
      ttsVoiceConfig, geminiTextResponse, log, response, served, missPolicy,
      fileExists, unlinkThrew>>

\* the temporary audio file and what became of its deletion
fileVars == <<fileExists, unlinkThrew>>

\* ------------------------------------------------------------ /live-stt state

VARIABLES
    wsState,            \* the client connection: open, closing, closed
    wsThrowsWhenClosed, \* whether ws.send throws on a connection that is not open
    streamEnded,        \* sonioxStream.end() has been called
    streamDestroyed,    \* sonioxStream was destroyed by an error
    liveText,           \* transcribedText of the connection
    liveLang,           \* spokenLangCode of the connection
    ttsResponseSent,
    livePc,             \* where the data handler that runs the Turn is suspended
    liveAttempt,        \* the loop variable of its retry loop
    liveTarget,         \* targetLangCode of the Turn
    liveVoice,          \* ttsVoiceConfig of the Turn
    liveReply,          \* geminiTextResponse of the Turn
    liveLog,            \* upstream calls, outcomes and waits of the Turn
    frames,             \* the frames handed to ws.send, in order
    unhandled,          \* an exception escaped a handler
    chunksIn,           \* audio chunks received from the client
    upstream,           \* the chunks written to sonioxStream, by arrival number
    dataEvents,         \* data events delivered by sonioxStream
    streamErrored,      \* sonioxStream has emitted its error event
    turnsStarted,       \* Turns started on the connection
    turnText,           \* the transcript of the final event that started the Turn
    handlerRan,         \* the close or error handler of the connection has run
    unanswered          \* a final event arrived while no Turn was in flight, no frame since

liveVars ==
    <<wsState, wsThrowsWhenClosed, streamEnded, streamDestroyed, liveText, liveLang,
      ttsResponseSent, livePc, liveAttempt, liveTarget, liveVoice, liveReply, liveLog,
      frames, unhandled, chunksIn, upstream, dataEvents, streamErrored, turnsStarted,
      turnText, handlerRan, unanswered>>

\* ------------------------------------------------------------ terminal chat state

VARIABLES
    conversationHistory, \* the entries pushed so far, each a role and a content
    chatPc,              \* where the callback of rl.question is suspended
    userText,            \* the line the callback was given
    contents,            \* the contents of the last generateContent call
    historyAtPrompt,     \* conversationHistory when the last line was read
    lastTurn,            \* how the last Turn ended: none, running, ok, failed
    turns                \* lines read so far

chatVars ==
    <<conversationHistory, chatPc, userText, contents, historyAtPrompt, lastTurn, turns>>

\* ------------------------------------------------------------ two /process-raw-audio requests

VARIABLES
    clock,               \* Date.now(), in milliseconds since the first request
    rawPc,               \* where the handler of each of the two requests is suspended
    rawName,             \* the Date.now() in tempFileName of each request
    disk,                \* per file name, the request whose bytes the file holds, 0 if none
    heard                \* per request, the request whose bytes were transcribed for it

rawVars == <<clock, rawPc, rawName, disk, heard>>

vars == <<httpVars, liveVars, chatVars, rawVars>>

NoAudio == [of |-> <<>>, voice |-> NoVoice]

NoResponse == [status |-> 0, error |-> "", details |-> "", text |-> <<>>, audio |-> NoAudio]

NoReq == [hasFile |-> FALSE, wav |-> FALSE, code |-> NoCode, text |-> Undef]

\* res.status(st).json({ error, details })
ErrorResponse(st, err, det) ==
    [status |-> st, error |-> err, details |-> det, text |-> <<>>, audio |-> NoAudio]

\* res.send(audioContent) or res.json({ ..., assistantResponse, audioBase64 })
AudioResponse(txt, aud) ==
    [status |-> 200, error |-> "", details |-> "", text |-> txt, audio |-> aud]

\* the requests a client can send to a route
Requests(r) ==
    CASE r \in StrictRoutes ->
            {[hasFile |-> f, wav |-> FALSE, code |-> c, text |-> Undef] :
                f \in BOOLEAN, c \in LangInputs}
      [] r = "he_raw" ->
            {[hasFile |-> FALSE, wav |-> w, code |-> c, text |-> Undef] :
                w \in BOOLEAN, c \in LangInputs}
      [] r = "p6_transcribe" ->
            {[hasFile |-> f, wav |-> FALSE, code |-> NoCode, text |-> Undef] :
                f \in BOOLEAN}
      [] r = "enh_speak" ->
            {[hasFile |-> FALSE, wav |-> FALSE, code |-> c, text |-> t] :
                c \in LangInputs, t \in TextInputs}
      [] OTHER ->
            {[hasFile |-> FALSE, wav |-> FALSE, code |-> NoCode, text |-> t] :
                t \in TextInputs}

\* the policy a server showed for a code that is none of the keys of the table
Policy(code, rejected, voice) ==
    IF rejected THEN "reject"
    ELSE IF voice = VOICE_MAP["en"] THEN "fallback"
    ELSE "inherited"

\* the connection handler has run: the stream is started, nothing has arrived
LiveStart ==
    /\ wsState = "open"
    /\ streamEnded = FALSE
    /\ streamDestroyed = FALSE
    /\ liveText = <<>>
    /\ liveLang = ""
    /\ ttsResponseSent = FALSE
    /\ livePc = "await"
    /\ liveAttempt = 0
    /\ liveTarget = ""
    /\ liveVoice = NoVoice
    /\ liveReply = <<>>
    /\ liveLog = <<>>
    /\ frames = <<>>
    /\ unhandled = FALSE
    /\ chunksIn = 0
    /\ upstream = <<>>
    /\ dataEvents = 0
    /\ streamErrored = FALSE
    /\ turnsStarted = 0
    /\ turnText = <<>>
    /\ handlerRan = FALSE
    /\ unanswered = FALSE

\* a server that has received no request
HttpStart ==
    /\ route = "none"
    /\ req = NoReq
    /\ pc = "idle"
    /\ attempt = 0
    /\ transcribedText = <<>>
    /\ spokenLangCode = "en"
    /\ targetLangCode = "en"
    /\ ttsVoiceConfig = NoVoice
    /\ geminiTextResponse = <<>>
    /\ log = <<>>
    /\ response = NoResponse
    /\ served = 0
    /\ missPolicy = {}
    /\ fileExists = FALSE
    /\ unlinkThrew = FALSE

\* the terminal chat programs that keep conversationHistory
ChatVariants == {"advancedchat", "part_007", "livechat", "mychat", "part_001"}

\* let conversationHistory = [] and the first call of ask()
ChatStart ==
    /\ conversationHistory = <<>>
    /\ chatPc = "prompt"
    /\ userText = <<>>
    /\ contents = <<>>
    /\ historyAtPrompt = <<>>
    /\ lastTurn = "none"
    /\ turns = 0

\* the milliseconds that pass while the two requests are handled
MaxClock == 1

\* the two requests
RawRequests == {1, 2}

\* no file in uploads
NoFile == 0

\* transcribeFileShort found no file at the path
FileMissing == 3

\* heserver.js is listening, the uploads directory holds no file
RawStart ==
    /\ clock = 0
    /\ rawPc = [i \in RawRequests |-> "idle"]
    /\ rawName = [i \in RawRequests |-> 0]
    /\ disk = [n \in 0..MaxClock |-> NoFile]
    /\ heard = [i \in RawRequests |-> NoFile]

\* the value of server in the behaviours that follow two requests to
\* /process-raw-audio that are handled at the same time
RawPair == "heserver/two requests"

\* the value of server in the behaviours that follow one /live-stt connection
LiveConn == "enhancedserver/live-stt"

\* one of the HTTP servers has started and no streaming connection is followed
HttpInit ==
    /\ server \in Servers
    /\ HttpStart
    /\ LiveStart
    /\ ChatStart
    /\ RawStart
    /\ wsThrowsWhenClosed = FALSE

\* a client has connected to /live-stt and no HTTP request is followed
LiveInit ==
    /\ server = LiveConn
    /\ HttpStart
    /\ LiveStart
    /\ ChatStart
    /\ RawStart
    /\ wsThrowsWhenClosed \in BOOLEAN

\* one of the terminal chat programs has started and printed its banner
ChatInit ==
    /\ server \in ChatVariants
    /\ HttpStart
    /\ LiveStart
    /\ ChatStart
    /\ RawStart
    /\ wsThrowsWhenClosed = FALSE

\* heserver.js has started and two clients are about to post their audio
RawInit ==
    /\ server = RawPair
    /\ HttpStart
    /\ LiveStart
    /\ ChatStart
    /\ RawStart
    /\ wsThrowsWhenClosed = FALSE

Init == HttpInit \/ LiveInit \/ ChatInit \/ RawInit

\* a code the client gave that is none of the keys of the voice table
UnknownCode(c) == c \notin VoiceKeys \cup {NoCode, ""}

\* the handler is entered with fresh locals
Enter(r, q) ==
    /\ Server(r) = server
    /\ pc \in {"idle", "done", "crashed"}
    /\ served < MaxRequests
    /\ q \in Requests(r)
    /\ served' = served + 1
    /\ route' = r
    /\ req' = q
    /\ UNCHANGED <<server, liveVars, chatVars, rawVars>>
    /\ fileExists' = (q.hasFile \/ q.wav)
    /\ unlinkThrew' = FALSE
    /\ attempt' = 0
    /\ transcribedText' = <<>>
    /\ spokenLangCode' = "en"
    /\ geminiTextResponse' = <<>>

Observe(r, c, rejected, voice) ==
    missPolicy' =
        IF UnknownCode(c)
        THEN missPolicy \cup {Policy(c, rejected, voice)}
        ELSE missPolicy

\* POST /transcribe-file of the variants with a voice table, up to the
\* transcription call
ReceiveStrict(r, q) ==
    /\ r \in StrictRoutes
    /\ Enter(r, q)
    /\ LET code == OrEn(q.code)
           voice == VoiceLookup(code)
       IN  /\ targetLangCode' = code
           /\ ttsVoiceConfig' = voice
           /\ IF ~q.hasFile
              THEN /\ response' = ErrorResponse(400, "No audio file provided", "")
                   /\ pc' = "done"
                   /\ log' = <<>>
                   /\ UNCHANGED missPolicy
              ELSE IF voice = NoVoice
              THEN /\ response' = ErrorResponse(400, "Unsupported target language code", "")
                   /\ pc' = "done"
                   /\ log' = <<>>
                   /\ Observe(r, q.code, TRUE, voice)
              ELSE /\ response' = NoResponse
                   /\ pc' = "stt"
                   /\ log' = <<[op |-> "stt", arg |-> <<>>]>>
                   /\ Observe(r, q.code, FALSE, voice)

\* POST /process-raw-audio up to the transcription call
ReceiveRaw(q) ==
    /\ Enter("he_raw", q)
    /\ LET code == IF VoiceLookup(q.code) = NoVoice THEN "en" ELSE q.code
       IN  /\ targetLangCode' = code
           /\ ttsVoiceConfig' = VoiceLookup(code)
           /\ Observe("he_raw", q.code, FALSE, VoiceLookup(code))
           /\ IF ~q.wav
              THEN /\ response' = ErrorResponse(400, "Invalid request", "")
                   /\ pc' = "done"
                   /\ log' = <<>>
              ELSE /\ response' = NoResponse
                   /\ pc' = "stt"
                   /\ log' = <<[op |-> "stt", arg |-> <<>>]>>

\* POST /transcribe-file of part_006 up to the transcription call
ReceiveFile6(q) ==
    /\ Enter("p6_transcribe", q)
    /\ targetLangCode' = "en"
    /\ ttsVoiceConfig' = FixedVoice
    /\ UNCHANGED missPolicy
    /\ IF ~q.hasFile
       THEN /\ response' = ErrorResponse(400, "No audio file provided", "")
            /\ pc' = "done"
            /\ log' = <<>>
       ELSE /\ response' = NoResponse
            /\ pc' = "stt"
            /\ log' = <<[op |-> "stt", arg |-> <<>>]>>

\* POST /speak up to the first generation call
ReceiveSpeak(r, q) ==
    /\ r \in SpeakRoutes
    /\ Enter(r, q)
    /\ LET code == IF r = "enh_speak" THEN DefaultEn(q.code) ELSE "en"
           voice == IF r = "enh_speak" THEN VoiceOrEn(code) ELSE FixedVoice
       IN  /\ targetLangCode' = code
           /\ ttsVoiceConfig' = voice
           /\ IF Falsy(q.text)
              THEN /\ response' = ErrorResponse(400, "No text provided", "")
                   /\ pc' = "done"
                   /\ log' = <<>>
                   /\ UNCHANGED missPolicy
              ELSE /\ response' = NoResponse
                   /\ pc' = "gen"
                   /\ log' = <<[op |-> "gen", arg |-> q.text]>>
                   /\ IF r = "enh_speak"
                      THEN Observe(r, q.code, FALSE, voice)
                      ELSE UNCHANGED missPolicy

\* the error text of the catch block of a route
CatchError(r) ==
    IF r \in FileRoutes THEN "Failed to process audio file" ELSE "Failed to generate speech"

\* what a call of fs.unlinkSync does
UnlinkOutcomes == {"ok", "throws"}

\* the message of the error fs.unlinkSync throws
UnlinkError == "unlink"

\* the catch block of a file route: the temporary file, if it is still there,
\* is deleted with fs.unlinkSync, then the error response is sent. An exception
\* of that fs.unlinkSync leaves the catch block before the response is sent.
\* The catch block of part_006 does not touch the file
CatchBlock(err, c) ==
    IF route = "p6_transcribe" \/ ~fileExists
    THEN /\ response' = ErrorResponse(500, CatchError(route), err)
         /\ pc' = "done"
         /\ UNCHANGED fileExists
    ELSE IF c = "ok"
    THEN /\ response' = ErrorResponse(500, CatchError(route), err)
         /\ pc' = "done"
         /\ fileExists' = FALSE
    ELSE /\ response' = NoResponse
         /\ pc' = "crashed"
         /\ UNCHANGED fileExists

\* transcribeFileShort resolves: the transcript is built, the temporary file
\* is deleted, and the first generation call is made. An exception of the
\* deletion is caught by the catch block of the handler
SttOk(words, u, c) ==
    /\ pc = "stt"
    /\ LET text == Transcript(route, words)
       IN  /\ transcribedText' = text
           /\ spokenLangCode' = SpokenLang(route, words)
           /\ IF fileExists /\ u = "throws"
              THEN /\ log' = Append(log, [op |-> "sttOk", arg |-> words])
                   /\ unlinkThrew' = TRUE
                   /\ CatchBlock(UnlinkError, c)
              ELSE IF Trim(text) = <<>>
              THEN /\ response' =
                        ErrorResponse(400, "Could not transcribe audio. Text is empty.", "")
                   /\ pc' = "done"
                   /\ log' = Append(log, [op |-> "sttOk", arg |-> words])
                   /\ fileExists' = FALSE
                   /\ UNCHANGED unlinkThrew
              ELSE /\ pc' = "gen"
                   /\ log' = log \o <<[op |-> "sttOk", arg |-> words],
                                      [op |-> "gen", arg |-> text]>>
                   /\ fileExists' = FALSE
                   /\ UNCHANGED <<response, unlinkThrew>>
    /\ UNCHANGED <<server, route, req, attempt, targetLangCode, ttsVoiceConfig,
                   geminiTextResponse, served, missPolicy, liveVars, chatVars, rawVars>>

\* transcribeFileShort rejects: the catch block cleans up and answers
SttFail(e, c) ==
    /\ pc = "stt"
    /\ log' = Append(log, [op |-> "sttFail", arg |-> e])
    /\ CatchBlock(e, c)
    /\ unlinkThrew' = (pc' = "crashed")
    /\ UNCHANGED <<server, route, req, attempt, transcribedText, spokenLangCode, targetLangCode,
                   ttsVoiceConfig, geminiTextResponse, served, missPolicy, liveVars, chatVars, rawVars>>

\* generateContent rejects: the last attempt rethrows into the catch block,
\* an earlier one starts the backoff wait
GenFail(e) ==
    /\ pc = "gen"
    /\ IF attempt = Retries(route) - 1
       THEN /\ log' = Append(log, [op |-> "genFail", arg |-> e])
            /\ response' = ErrorResponse(500, CatchError(route), e)
            /\ pc' = "done"
       ELSE /\ log' = log \o <<[op |-> "genFail", arg |-> e],
                               [op |-> "wait", arg |-> BackoffMs(attempt)]>>
            /\ pc' = "delay"
            /\ UNCHANGED response
    /\ UNCHANGED <<server, route, req, attempt, transcribedText, spokenLangCode, targetLangCode,
                   ttsVoiceConfig, geminiTextResponse, served, missPolicy, fileVars, liveVars, chatVars, rawVars>>

\* the backoff wait is over: the loop makes the next attempt
DelayDone ==
    /\ pc = "delay"
    /\ attempt' = attempt + 1
    /\ pc' = "gen"
    /\ log' = Append(log, [op |-> "gen",
                           arg |-> IF route \in SpeakRoutes THEN req.text
                                   ELSE transcribedText])
    /\ UNCHANGED <<server, route, req, transcribedText, spokenLangCode, targetLangCode,
                   ttsVoiceConfig, geminiTextResponse, response, served, missPolicy, fileVars, liveVars, chatVars, rawVars>>

\* a handler that hands every generated text to synthesizeSpeech
NoReplyNever(text) == FALSE

\* !geminiTextResponse
NoReply(text) == text = <<>>

\* generateContent resolves: the text is post-processed, an empty one is
\* answered with 500, any other is handed to synthesizeSpeech
GenOk(raw) ==
    /\ pc = "gen"
    /\ LET text == PostProcess(route, raw)
       IN  /\ geminiTextResponse' = text
           /\ IF NoReply(text)
              THEN /\ response' = ErrorResponse(500, "Gemini did not provide a response", "")
                   /\ pc' = "done"
                   /\ log' = Append(log, [op |-> "genOk", arg |-> raw])
              ELSE /\ pc' = "synth"
                   /\ log' = log \o <<[op |-> "genOk", arg |-> raw],
                                      [op |-> "synth", arg |-> text]>>
                   /\ UNCHANGED response
    /\ UNCHANGED <<server, route, req, attempt, transcribedText, spokenLangCode, targetLangCode,
                   ttsVoiceConfig, served, missPolicy, fileVars, liveVars, chatVars, rawVars>>

\* synthesizeSpeech resolves: the audio is sent
SynthOk ==
    /\ pc = "synth"
    /\ log' = Append(log, [op |-> "synthOk", arg |-> <<>>])
    /\ response' = AudioResponse(geminiTextResponse,
                                 [of |-> geminiTextResponse, voice |-> ttsVoiceConfig])
    /\ pc' = "done"
    /\ UNCHANGED <<server, route, req, attempt, transcribedText, spokenLangCode, targetLangCode,
                   ttsVoiceConfig, geminiTextResponse, served, missPolicy, fileVars, liveVars, chatVars, rawVars>>

\* synthesizeSpeech rejects: the catch block answers
SynthFail(e) ==
    /\ pc = "synth"
    /\ log' = Append(log, [op |-> "synthFail", arg |-> e])
    /\ response' = ErrorResponse(500, CatchError(route), e)
    /\ pc' = "done"
    /\ UNCHANGED <<server, route, req, attempt, transcribedText, spokenLangCode, targetLangCode,
                   ttsVoiceConfig, geminiTextResponse, served, missPolicy, fileVars, liveVars, chatVars, rawVars>>

\* ------------------------------------------------------------ /live-stt

MaxChunks == 1

MaxDataEvents == 2

\* the data events sonioxStream delivers
LiveEvents ==
    {[is_final |-> FALSE, text |-> <<"a">>, language_code |-> NoCode]}
    \cup {[is_final |-> TRUE, text |-> <<SP>>, language_code |-> NoCode],
          [is_final |-> TRUE, text |-> <<"a">>, language_code |-> NoCode],
          [is_final |-> TRUE, text |-> <<"a">>, language_code |-> "hi"],
          [is_final |-> TRUE, text |-> <<SP, "b">>, language_code |-> "xx"]}

\* raw texts the generation service returns to a Turn of the connection
LiveGenTexts == {<<>>, <<"a", SP>>, Fence \o <<NL, "a", NL>> \o Fence}

\* messages of the errors an upstream call of a Turn of the connection throws
LiveErrors == {"E1"}

\* sonioxStream.writable
Writable == ~streamEnded /\ ~streamDestroyed

AudioFrame(aud) == [kind |-> "audio", error |-> "", audio |-> aud, open |-> wsState = "open"]

ErrorFrame(msg) == [kind |-> "error", error |-> msg, audio |-> NoAudio, open |-> wsState = "open"]

\* ws.send on a connection that is not open throws in some versions of ws
SendThrows == wsState # "open" /\ wsThrowsWhenClosed

\* ws.close(1011, ...)
AfterClose == IF wsState = "open" THEN "closing" ELSE wsState

\* ws.on('message'): the chunk is written to the stream while it is writable
WsMessage(writeThrows) ==
    /\ server = LiveConn
    /\ wsState \in {"open", "closing"}
    /\ chunksIn < MaxChunks
    /\ chunksIn' = chunksIn + 1
    /\ IF Writable /\ ~writeThrows
       THEN /\ upstream' = Append(upstream, chunksIn + 1)
            /\ UNCHANGED wsState
       ELSE IF Writable
       THEN /\ wsState' = AfterClose
            /\ UNCHANGED upstream
       ELSE UNCHANGED <<wsState, upstream>>
    /\ UNCHANGED <<wsThrowsWhenClosed, streamEnded, streamDestroyed, liveText, liveLang,
                   ttsResponseSent, livePc, liveAttempt, liveTarget, liveVoice, liveReply,
                   liveLog, frames, unhandled, dataEvents, streamErrored, turnsStarted,
                   turnText, handlerRan, unanswered, httpVars, chatVars, rawVars>>

\* a data handler that does not test the guard
SkipWithoutGuard(text) == text = <<>>

\* transcribedText.length === 0 || ttsResponseSent
Skip(text) == text = <<>> \/ ttsResponseSent

\* sonioxStream.on('data') up to its first await: a final result overwrites the
\* transcript of the connection, ends the stream and, unless the transcript is
\* empty or the guard is set, sets the guard and makes the first generation call
StreamData(ev) ==
    /\ server = LiveConn
    /\ dataEvents < MaxDataEvents
    /\ ~streamDestroyed
    /\ dataEvents' = dataEvents + 1
    /\ IF ~ev.is_final
       THEN UNCHANGED <<liveText, liveLang, streamEnded, ttsResponseSent, livePc,
                        liveAttempt, liveTarget, liveVoice, liveLog, turnsStarted, turnText,
                        unanswered>>
       ELSE /\ liveText' = Trim(ev.text)
            /\ unanswered' = (unanswered \/ livePc \notin {"gen", "delay", "synth"})
            /\ liveLang' = OrEn(ev.language_code)
            /\ streamEnded' = TRUE
            /\ IF Skip(Trim(ev.text))
               THEN UNCHANGED <<ttsResponseSent, livePc, liveAttempt, liveTarget,
                                liveVoice, liveLog, turnsStarted, turnText>>
               ELSE /\ ttsResponseSent' = TRUE
                    /\ liveTarget' = OrEn(ev.language_code)
                    /\ liveVoice' = VoiceOrEn(OrEn(ev.language_code))
                    /\ liveAttempt' = 0
                    /\ liveLog' = <<[op |-> "gen", arg |-> Trim(ev.text)]>>
                    /\ livePc' = "gen"
                    /\ turnsStarted' = turnsStarted + 1
                    /\ turnText' = Trim(ev.text)
    /\ UNCHANGED <<wsState, wsThrowsWhenClosed, streamDestroyed, liveReply, frames,
                   unhandled, chunksIn, upstream, streamErrored, handlerRan, httpVars, chatVars, rawVars>>

\* the catch block of the Turn: an error frame, then ws.close
TurnCatch(sent) ==
    /\ frames' = Append(sent, ErrorFrame("Sorry, a server error occurred after transcribing."))
    /\ unhandled' = (unhandled \/ SendThrows)
    /\ wsState' = IF SendThrows THEN wsState ELSE AfterClose
    /\ livePc' = "done"
    /\ unanswered' = FALSE

\* generateContent rejects in the Turn
LiveGenFail(e) ==
    /\ livePc = "gen"
    /\ IF liveAttempt = MAX_RETRIES - 1
       THEN /\ liveLog' = Append(liveLog, [op |-> "genFail", arg |-> e])
            /\ TurnCatch(frames)
       ELSE /\ liveLog' = liveLog \o <<[op |-> "genFail", arg |-> e],
                                       [op |-> "wait", arg |-> BackoffMs(liveAttempt)]>>
            /\ livePc' = "delay"
            /\ UNCHANGED <<frames, unhandled, wsState, unanswered>>
    /\ UNCHANGED <<wsThrowsWhenClosed, streamEnded, streamDestroyed, liveText, liveLang,
                   ttsResponseSent, liveAttempt, liveTarget, liveVoice, liveReply,
                   chunksIn, upstream, dataEvents, streamErrored, turnsStarted, turnText,
                   handlerRan, httpVars, chatVars, rawVars>>

\* the backoff wait of the Turn is over: the next attempt sends transcribedText
\* as it is now
LiveDelayDone ==
    /\ livePc = "delay"
    /\ liveAttempt' = liveAttempt + 1
    /\ liveLog' = Append(liveLog, [op |-> "gen", arg |-> liveText])
    /\ livePc' = "gen"
    /\ UNCHANGED <<wsState, wsThrowsWhenClosed, streamEnded, streamDestroyed, liveText,
                   liveLang, ttsResponseSent, liveTarget, liveVoice, liveReply, frames,
                   unhandled, chunksIn, upstream, dataEvents, streamErrored, turnsStarted,
                   turnText, handlerRan, unanswered, httpVars, chatVars, rawVars>>

\* generateContent resolves in the Turn: the text is post-processed and handed
\* to synthesizeSpeech
LiveGenOk(raw) ==
    /\ livePc = "gen"
    /\ liveReply' = StripFenceSlice(Trim(raw))
    /\ liveLog' = liveLog \o <<[op |-> "genOk", arg |-> raw],
                               [op |-> "synth", arg |-> StripFenceSlice(Trim(raw))]>>
    /\ livePc' = "synth"
    /\ UNCHANGED <<wsState, wsThrowsWhenClosed, streamEnded, streamDestroyed, liveText,
                   liveLang, ttsResponseSent, liveAttempt, liveTarget, liveVoice, frames,
                   unhandled, chunksIn, upstream, dataEvents, streamErrored, turnsStarted,
                   turnText, handlerRan, unanswered, httpVars, chatVars, rawVars>>

\* synthesizeSpeech resolves in the Turn: the audio is sent as a binary frame
LiveSynthOk ==
    /\ livePc = "synth"
    /\ liveLog' = Append(liveLog, [op |-> "synthOk", arg |-> <<>>])
    /\ LET sent == Append(frames, AudioFrame([of |-> liveReply, voice |-> liveVoice]))
       IN  IF SendThrows
           THEN TurnCatch(sent)
           ELSE /\ frames' = sent
                /\ livePc' = "done"
                /\ unanswered' = FALSE
                /\ UNCHANGED <<unhandled, wsState>>
    /\ UNCHANGED <<wsThrowsWhenClosed, streamEnded, streamDestroyed, liveText, liveLang,
                   ttsResponseSent, liveAttempt, liveTarget, liveVoice, liveReply,
                   chunksIn, upstream, dataEvents, streamErrored, turnsStarted, turnText,
                   handlerRan, httpVars, chatVars, rawVars>>

\* synthesizeSpeech rejects in the Turn
LiveSynthFail(e) ==
    /\ livePc = "synth"
    /\ liveLog' = Append(liveLog, [op |-> "synthFail", arg |-> e])
    /\ TurnCatch(frames)
    /\ UNCHANGED <<wsThrowsWhenClosed, streamEnded, streamDestroyed, liveText, liveLang,
                   ttsResponseSent, liveAttempt, liveTarget, liveVoice, liveReply,
                   chunksIn, upstream, dataEvents, streamErrored, turnsStarted, turnText,
                   handlerRan, httpVars, chatVars, rawVars>>

\* handlers that leave the stream as it is
EndNothing ==
    /\ streamEnded' = streamEnded
    /\ handlerRan' = TRUE

\* what the close and the error handler of the connection do
EndIfWritable ==
    /\ streamEnded' = (streamEnded \/ Writable)
    /\ handlerRan' = TRUE

\* ws.on('close')
WsClose ==
    /\ server = LiveConn
    /\ wsState \in {"open", "closing"}
    /\ wsState' = "closed"
    /\ EndIfWritable
    /\ UNCHANGED <<wsThrowsWhenClosed, streamDestroyed, liveText, liveLang,
                   ttsResponseSent, livePc, liveAttempt, liveTarget, liveVoice, liveReply,
                   liveLog, frames, unhandled, chunksIn, upstream, dataEvents,
                   streamErrored, turnsStarted, turnText, unanswered, httpVars, chatVars, rawVars>>

\* ws.on('error'): the connection is torn down, its close event follows
WsError ==
    /\ server = LiveConn
    /\ wsState = "open"
    /\ wsState' = "closing"
    /\ EndIfWritable
    /\ UNCHANGED <<wsThrowsWhenClosed, streamDestroyed, liveText, liveLang,
                   ttsResponseSent, livePc, liveAttempt, liveTarget, liveVoice, liveReply,
                   liveLog, frames, unhandled, chunksIn, upstream, dataEvents,
                   streamErrored, turnsStarted, turnText, unanswered, httpVars, chatVars, rawVars>>

\* sonioxStream.on('error'): an error frame, then ws.close. A stream emits its
\* error event once; the error may or may not have destroyed the stream
StreamError(destroys) ==
    /\ server = LiveConn
    /\ ~streamErrored
    /\ streamErrored' = TRUE
    /\ streamDestroyed' = destroys
    /\ frames' = Append(frames, ErrorFrame("Speech service error."))
    /\ unanswered' = FALSE
    /\ unhandled' = (unhandled \/ SendThrows)
    /\ wsState' = IF SendThrows THEN wsState ELSE AfterClose
    /\ UNCHANGED <<wsThrowsWhenClosed, streamEnded, liveText, liveLang, ttsResponseSent,
                   livePc, liveAttempt, liveTarget, liveVoice, liveReply, liveLog,
                   chunksIn, upstream, dataEvents, turnsStarted, turnText, handlerRan,
                   httpVars, chatVars, rawVars>>

\* ------------------------------------------------------------ terminal chat

\* the lines one run of a chat program reads
MaxTurns == 3

\* String.prototype.toLowerCase on the letters of the lines typed
LowerOf == [c \in {"E", "X", "I", "T", "H"} |->
               CASE c = "E" -> "e" [] c = "X" -> "x" [] c = "I" -> "i"
                 [] c = "T" -> "t" [] OTHER -> "h"]

\* a comparison that leaves the case of the line as typed
ToLowerCaseNone(t) == t

ToLowerCase(t) == [i \in DOMAIN t |-> IF t[i] \in DOMAIN LowerOf THEN LowerOf[t[i]] ELSE t[i]]

\* the line that ends the loop
ExitWord == <<"e", "x", "i", "t">>

\* the lines the user types
ChatInputs ==
    {<<>>, <<"h", "i">>, <<"H", "i">>, ExitWord, <<"E", "x", "i", "T">>,
     <<"e", "x", "i", "t", SP>>}

\* resp.text of a generateContent call that resolves
ChatGenTexts == {<<>>, <<"o", "k">>}

\* a generateContent call that is given the last entry only
ContentsLastOnly(h) == <<h[Len(h)].content>>

\* conversationHistory.map(m => m.content)
Contents(h) == [i \in DOMAIN h |-> h[i].content]

\* the programs that await the speech of the reply inside the try block
AwaitsSpeech(v) == v # "part_001"

\* the catch block of the callback, then ask()
ChatCatch ==
    /\ lastTurn' = "failed"
    /\ chatPc' = "prompt"

\* the callback of rl.question up to its first await: exit closes the
\* interface, any other line is pushed and the whole list is sent
Ask(t) ==
    /\ server \in ChatVariants
    /\ chatPc = "prompt"
    /\ turns < MaxTurns
    /\ turns' = turns + 1
    /\ userText' = t
    /\ IF ToLowerCase(t) = ExitWord
       THEN /\ chatPc' = "closed"
            /\ UNCHANGED <<conversationHistory, contents, historyAtPrompt, lastTurn>>
       ELSE /\ historyAtPrompt' = conversationHistory
            /\ conversationHistory' =
                   Append(conversationHistory, [role |-> "user", content |-> t])
            /\ contents' = Contents(conversationHistory')
            /\ lastTurn' = "running"
            /\ chatPc' = "gen"
    /\ UNCHANGED <<httpVars, liveVars, rawVars>>

\* generateContent resolves: an empty text throws, any other is pushed and,
\* except in part_001, spoken before the next line is read
ChatGenOk(text) ==
    /\ chatPc = "gen"
    /\ IF text = <<>>
       THEN /\ ChatCatch
            /\ UNCHANGED conversationHistory
       ELSE /\ conversationHistory' =
                   Append(conversationHistory, [role |-> "assistant", content |-> text])
            /\ IF AwaitsSpeech(server)
               THEN /\ chatPc' = "speak"
                    /\ UNCHANGED lastTurn
               ELSE /\ chatPc' = "prompt"
                    /\ lastTurn' = "ok"
    /\ UNCHANGED <<userText, contents, historyAtPrompt, turns, httpVars, liveVars, rawVars>>

\* generateContent rejects
ChatGenFail ==
    /\ chatPc = "gen"
    /\ ChatCatch
    /\ UNCHANGED <<conversationHistory, userText, contents, historyAtPrompt, turns,
                   httpVars, liveVars, rawVars>>

\* the speech of the reply (synthesizeSpeech and the file, or speakFemale) is done
ChatSpeakOk ==
    /\ chatPc = "speak"
    /\ lastTurn' = "ok"
    /\ chatPc' = "prompt"
    /\ UNCHANGED <<conversationHistory, userText, contents, historyAtPrompt, turns,
                   httpVars, liveVars, rawVars>>

\* the speech of the reply throws or rejects
ChatSpeakFail ==
    /\ chatPc = "speak"
    /\ ChatCatch
    /\ UNCHANGED <<conversationHistory, userText, contents, historyAtPrompt, turns,
                   httpVars, liveVars, rawVars>>

\* ------------------------------------------------------------ /process-raw-audio, two at a time

\* a millisecond passes
Tick ==
    /\ server = RawPair
    /\ clock < MaxClock
    /\ clock' = clock + 1
    /\ UNCHANGED <<rawPc, rawName, disk, heard, httpVars, liveVars, chatVars>>

\* the handler of request i up to await writeFile: the file name is made of
\* Date.now()
RawReceive(i) ==
    /\ server = RawPair
    /\ rawPc[i] = "idle"
    /\ rawName' = [rawName EXCEPT ![i] = clock]
    /\ rawPc' = [rawPc EXCEPT ![i] = "write"]
    /\ UNCHANGED <<clock, disk, heard, httpVars, liveVars, chatVars>>

\* writeFile has written the bytes of request i, the handler calls
\* transcribeFileShort with the path
RawWritten(i) ==
    /\ rawPc[i] = "write"
    /\ disk' = [disk EXCEPT ![rawName[i]] = i]
    /\ rawPc' = [rawPc EXCEPT ![i] = "stt"]
    /\ UNCHANGED <<clock, rawName, heard, httpVars, liveVars, chatVars>>

\* transcribeFileShort reads the file at the path of request i
RawRead(i) ==
    /\ rawPc[i] = "stt"
    /\ heard' = [heard EXCEPT ![i] = IF disk[rawName[i]] = NoFile THEN FileMissing
                                      ELSE disk[rawName[i]]]
    /\ rawPc' = [rawPc EXCEPT ![i] = "read"]
    /\ UNCHANGED <<clock, rawName, disk, httpVars, liveVars, chatVars>>

\* transcribeFileShort settles for request i: on the success path and in the
\* catch block alike the file at the path, if there is one, is deleted
RawCleanup(i) ==
    /\ rawPc[i] = "read"
    /\ disk' = [disk EXCEPT ![rawName[i]] = NoFile]
    /\ rawPc' = [rawPc EXCEPT ![i] = "done"]
    /\ UNCHANGED <<clock, rawName, heard, httpVars, liveVars, chatVars>>

\* speakFemale of mychat.js: the first data event after the write holds a
\* part of the reply of the speech process only. JSON.parse throws, the catch
\* block ignores it and the finally block removes the listener, so that no
\* later data event is looked at and the promise is never settled
ChatSpeakSplit ==
    /\ server = "mychat"
    /\ chatPc = "speak"
    /\ chatPc' = "hung"
    /\ UNCHANGED <<conversationHistory, userText, contents, historyAtPrompt, lastTurn, turns,
                   httpVars, liveVars, rawVars>>

Next ==
    \/ \E r \in StrictRoutes : \E q \in Requests(r) : ReceiveStrict(r, q)
    \/ \E q \in Requests("he_raw") : ReceiveRaw(q)
    \/ \E q \in Requests("p6_transcribe") : ReceiveFile6(q)
    \/ \E r \in SpeakRoutes : \E q \in Requests(r) : ReceiveSpeak(r, q)
    \/ \E w \in SttResults : \E u, c \in UnlinkOutcomes : SttOk(w, u, c)
    \/ \E e \in Errors : \E c \in UnlinkOutcomes : SttFail(e, c)
    \/ \E e \in Errors : GenFail(e)
    \/ DelayDone
    \/ \E t \in GenTexts : GenOk(t)
    \/ SynthOk
    \/ \E e \in Errors : SynthFail(e)
    \/ \E t \in BOOLEAN : WsMessage(t)
    \/ \E ev \in LiveEvents : StreamData(ev)
    \/ \E e \in LiveErrors : LiveGenFail(e)
    \/ LiveDelayDone
    \/ \E t \in LiveGenTexts : LiveGenOk(t)
    \/ LiveSynthOk
    \/ \E e \in LiveErrors : LiveSynthFail(e)
    \/ WsClose
    \/ WsError
    \/ \E d \in BOOLEAN : StreamError(d)
    \/ \E t \in ChatInputs : Ask(t)
    \/ \E t \in ChatGenTexts : ChatGenOk(t)
    \/ ChatGenFail
    \/ ChatSpeakOk
    \/ ChatSpeakFail
    \/ ChatSpeakSplit
    \/ Tick
    \/ \E i \in RawRequests : RawReceive(i)
    \/ \E i \in RawRequests : RawWritten(i)
    \/ \E i \in RawRequests : RawRead(i)
    \/ \E i \in RawRequests : RawCleanup(i)

\* every behaviour follows one HTTP server through its requests, one
\* /live-stt connection through its events, or one run of a chat program
Spec == Init /\ [][Next]_vars

\* ------------------------------------------------------------ properties

\* the entries of a log with one of the given operations
Only(l, ops) == SelectSeq(l, LAMBDA x : x.op \in ops)

Count(l, o) == Len(Only(l, {o}))

\* the generation calls of a log, with their outcomes and the waits
GenTrace(l) == Only(l, {"gen", "genFail", "wait", "genOk"})

\* a Turn of the connection is in flight
InFlight == livePc \in {"gen", "delay", "synth"}

\* the retry contract on a log: after two failures and a success the log holds
\* three calls, a wait of 1 s after the first failure and of 2 s after the second
TwoFailuresThenSuccess(l) == Count(l, "genFail") = 2 /\ Count(l, "genOk") = 1

RetryContract(l, prompt) ==
    LET g == GenTrace(l)
    IN  /\ Len(g) = 8
        /\ [i \in 1..8 |-> g[i].op] =
              <<"gen", "genFail", "wait", "gen", "genFail", "wait", "gen", "genOk">>
        /\ g[3].arg = 1000
        /\ g[6].arg = 2000
        /\ \A i \in {1, 4, 7} : g[i].arg = prompt

\* C1: in every endpoint that retries generation, when the generation call
\* fails on the attempts 1 and 2 and succeeds on the attempt 3, exactly three
\* generation calls are made, with a wait of 1 s between the first two and of
\* 2 s between the last two, and the Turn goes on with the text of the third
\* call: it is the text post-processed, and synthesized unless it is empty.
C1_RetryBackoff ==
    /\ TwoFailuresThenSuccess(log) =>
          /\ RetryContract(log, IF route \in SpeakRoutes THEN req.text ELSE transcribedText)
          /\ geminiTextResponse = PostProcess(route, GenTrace(log)[8].arg)
          /\ Count(log, "synth") = IF geminiTextResponse = <<>> THEN 0 ELSE 1
    /\ TwoFailuresThenSuccess(liveLog) =>
          /\ Len(GenTrace(liveLog)) = 8
          /\ GenTrace(liveLog)[3] = [op |-> "wait", arg |-> 1000]
          /\ GenTrace(liveLog)[6] = [op |-> "wait", arg |-> 2000]
          /\ Count(liveLog, "gen") = 3
          /\ liveReply = StripFenceSlice(Trim(GenTrace(liveLog)[8].arg))
          /\ Count(liveLog, "synth") = 1

\* a request whose generation failed twice and then succeeded was answered
\* with the audio
C1_Witness ==
    /\ TwoFailuresThenSuccess(log)
    /\ route = "he_raw"
    /\ pc = "done"
    /\ response.status = 200

\* C2: when the generation call fails on all three attempts of a Turn, no
\* fourth generation call and no synthesis call is made, and the handler ends
\* with the terminal error: a 500 JSON error on the HTTP routes, an error frame
\* handed to ws.send on the streaming connection.
C2_ExhaustedRetries ==
    /\ Count(log, "genFail") >= MAX_RETRIES =>
          /\ Count(log, "gen") = MAX_RETRIES
          /\ Count(log, "genFail") = MAX_RETRIES
          /\ Count(log, "synth") = 0
          /\ pc = "done"
          /\ response.status = 500
          /\ response.error = CatchError(route)
    /\ Count(liveLog, "genFail") >= MAX_RETRIES =>
          /\ Count(liveLog, "gen") = MAX_RETRIES
          /\ Count(liveLog, "genFail") = MAX_RETRIES
          /\ Count(liveLog, "synth") = 0
          /\ livePc = "done"
          /\ \E i \in DOMAIN frames :
                /\ frames[i].kind = "error"
                /\ frames[i].error = "Sorry, a server error occurred after transcribing."
          /\ \A i \in DOMAIN frames : frames[i].kind # "audio"

\* a Turn of an open streaming connection whose three attempts failed
C2_Witness ==
    /\ Count(liveLog, "genFail") = MAX_RETRIES
    /\ \E i \in DOMAIN frames : frames[i].kind = "error" /\ frames[i].open

\* C3: on one streaming connection at most one Turn is in flight: while a Turn
\* is in flight no step starts another one, whatever arrives, so the Turn makes
\* one retry sequence of at most three generation calls and at most one
\* synthesis call.
C3_OneTurnInFlight ==
    [][InFlight =>
          /\ turnsStarted' = turnsStarted
          /\ Count(liveLog', "gen") <= MAX_RETRIES
          /\ Count(liveLog', "synth") <= 1
          /\ Len(liveLog') >= Len(liveLog)]_vars

\* a second final transcript event has arrived while the Turn was in flight
C3_Witness ==
    /\ InFlight
    /\ dataEvents = 2
    /\ turnsStarted = 1
    /\ liveText # turnText

\* C4: a second final transcript event that arrives while a Turn is in flight
\* changes nothing the Turn uses: every generation attempt of the Turn sends
\* the transcript of the final event that started it, and the audio sent back
\* is synthesized from the text generated in the Turn.
C4_TurnKeepsItsTranscript ==
    /\ \A i \in DOMAIN liveLog : liveLog[i].op = "gen" => liveLog[i].arg = turnText
    /\ \A i \in DOMAIN frames : frames[i].kind = "audio" => frames[i].audio.of = liveReply

\* C5: once the close handler or the error handler of the client connection
\* has run, in any state of the connection, the upstream transcription stream
\* is terminated: it was ended, or an error had destroyed it.
C5_StreamEndedAfterClose == handlerRan => (streamEnded \/ streamDestroyed)

\* the client closed the connection before any transcript arrived, and the
\* handler ended the stream
C5_Witness ==
    /\ wsState = "closed"
    /\ handlerRan
    /\ dataEvents = 0
    /\ streamEnded
    /\ ~streamDestroyed

\* the text a Turn was given: the posted text, or the transcript
InputText == IF route \in SpeakRoutes THEN req.text ELSE transcribedText

\* a text that is absent, or empty once trimmed
EmptyInput(t) == t = Undef \/ Trim(t) = <<>>

\* a raw generated text that is empty after trimming and fence stripping
EmptyReply(raw) == StripFenceSlice(Trim(raw)) = <<>>

\* every generation call of a log sends a valid input, and every synthesis
\* call of a log directly follows a generation call that succeeded with a text
\* that is not empty after post-processing, and sends a text that is not empty
Ordered(l) ==
    /\ \A i \in DOMAIN l : l[i].op = "gen" => ~EmptyInput(l[i].arg)
    /\ \A i \in DOMAIN l :
          l[i].op = "synth" =>
              /\ i > 1
              /\ l[i - 1].op = "genOk"
              /\ ~EmptyReply(l[i - 1].arg)
              /\ l[i].arg # <<>>

\* C6: within one Turn, on every endpoint, no generation call is made before
\* the input validation has passed (the input is not empty after trimming), and
\* no synthesis call is made unless a generation call of the Turn has succeeded
\* with a text that is not empty after post-processing.
C6_ValidateGenerateSynthesize == Ordered(log) /\ Ordered(liveLog)

\* C7: whenever the generated text is empty after post-processing (trimming
\* and fence stripping) the synthesis call is not made and the Turn ends in a
\* failure reported to the caller, on the file, text and streaming endpoints.
C7_EmptyReplyRejected ==
    /\ \A i \in DOMAIN log :
          (log[i].op = "genOk" /\ EmptyReply(log[i].arg)) =>
              /\ Count(log, "synth") = 0
              /\ pc = "done"
              /\ response.status = 500
    /\ \A i \in DOMAIN liveLog :
          (liveLog[i].op = "genOk" /\ EmptyReply(liveLog[i].arg)) =>
              /\ Count(liveLog, "synth") = 0
              /\ livePc = "done"
              /\ \E k \in DOMAIN frames : frames[k].kind = "error"

\* C8: on every endpoint an input text that is empty after trimming is
\* rejected with a client-visible error and no generation call is made for it:
\* a 400 answer on the HTTP routes, an error frame on the streaming connection.
C8_EmptyInputRejected ==
    /\ (route \in SpeakRoutes /\ EmptyInput(req.text)) =>
          /\ Count(log, "gen") = 0
          /\ response.status = 400
    /\ (route \in FileRoutes /\ Count(log, "sttOk") = 1 /\ EmptyInput(transcribedText)) =>
          /\ Count(log, "gen") = 0
          /\ response.status = 400
    /\ (dataEvents > 0 /\ streamEnded /\ liveText = <<>> /\ turnsStarted = 0
            /\ ~streamErrored) =>
          \E k \in DOMAIN frames : frames[k].kind = "error"

\* C9: an input error on a strict /transcribe-file (no audio file, or a
\* target-language code that is none of the keys of the voice table) is
\* answered with a 400 error before any upstream call: no transcription,
\* generation or synthesis call is made for the request.
C9_InputErrorBeforeUpstream ==
    (route \in StrictRoutes /\ (~req.hasFile \/ OrEn(req.code) \notin VoiceKeys)) =>
        /\ log = <<>>
        /\ pc = "done"
        /\ response.status = 400

\* C10: within one server every endpoint that takes a target-language code
\* applies the same policy to an unknown code: the server never rejects one
\* request for it and falls back to the default voice profile in another.
C10_OnePolicyPerServer == ~({"reject", "fallback"} \subseteq missPolicy)

\* the message of the last generation failure of a log
LastGenError(l) == Only(l, {"genFail"})[Count(l, "genFail")].arg

\* C11: when the generation call has failed on all three attempts of a Turn,
\* the terminal error the caller gets carries the message of the error of the
\* third attempt: in the details of the 500 answer on the HTTP routes, in the
\* error frame on the streaming connection.
C11_TerminalErrorCarriesLast ==
    /\ Count(log, "genFail") = MAX_RETRIES =>
          /\ pc = "done"
          /\ response.details = LastGenError(log)
    /\ Count(liveLog, "genFail") = MAX_RETRIES =>
          \E i \in DOMAIN frames :
              /\ frames[i].kind = "error"
              /\ frames[i].error = LastGenError(liveLog)

\* a failure of the transcription or of the synthesis call is the last entry
\* of the log of the request and is answered with a 500 that carries it
FailureSurfaced(l) ==
    \A i \in DOMAIN l :
        l[i].op \in {"sttFail", "synthFail"} =>
            /\ i = Len(l)
            /\ pc = "done"
            /\ response.status = 500
            /\ response.details = l[i].arg

\* C12: only the generation call is retried: in every Turn the transcription
\* call and the synthesis call are made at most once, the generation call at
\* most three times, and a failure of the transcription or of the synthesis
\* call ends the Turn with an error given to the caller, with no second attempt.
C12_RetryOnlyGeneration ==
    /\ Count(log, "stt") <= 1
    /\ Count(log, "synth") <= 1
    /\ Count(log, "gen") <= MAX_RETRIES
    /\ FailureSurfaced(log)
    /\ Count(liveLog, "synth") <= 1
    /\ Count(liveLog, "gen") <= MAX_RETRIES
    /\ \A i \in DOMAIN liveLog :
          liveLog[i].op = "synthFail" =>
              /\ i = Len(liveLog)
              /\ livePc = "done"
              /\ \E k \in DOMAIN frames : frames[k].kind = "error"

\* the frames that were handed to ws.send while the connection was open
Delivered == SelectSeq(frames, LAMBDA f : f.open)

\* C13: the client of a streaming connection gets at most one frame for the
\* Turn of the connection, an audio frame or an error frame, never both and
\* never two error frames, however the end of the Turn and the error event of
\* the transcription stream interleave.
C13_OneFramePerTurn == Len(Delivered) <= 1

\* C14: on an open streaming connection a final transcript event that arrived
\* while no Turn was in flight is unanswered only as long as a Turn is in
\* flight for it: when no upstream call is pending, a frame has been sent
\* since the event arrived.
C14_FinalAnswered == (unanswered /\ wsState = "open") => InFlight

\* C15: an exception of the deletion of the temporary audio file changes
\* nothing for the caller: the handler does not end without a response, after a
\* transcription that failed the caller gets the 500 that carries its error,
\* and after one that succeeded the caller gets the 400 of an empty transcript
\* or the Turn goes on with the generation call.
C15_DeletionFailureHidden ==
    unlinkThrew =>
        /\ pc # "crashed"
        /\ Count(log, "sttFail") = 1 =>
              /\ pc = "done"
              /\ response = ErrorResponse(500, CatchError(route), log[Len(log)].arg)
        /\ (Count(log, "sttOk") = 1 /\ EmptyInput(transcribedText)) =>
              /\ pc = "done"
              /\ response.status = 400
        /\ (Count(log, "sttOk") = 1 /\ ~EmptyInput(transcribedText)) =>
              Count(log, "gen") >= 1

\* a fenced text without its first and its last line
WithoutFenceLines(t) == Trim(Join(Slice1m1(Split(t))))

\* every synthesis call of a log that follows a generated text that is fenced
\* once trimmed is given that text without its first and its last line
FenceStripped(l) ==
    \A i \in DOMAIN l :
        (l[i].op = "synth" /\ i > 1 /\ l[i - 1].op = "genOk" /\ IsFenced(Trim(l[i - 1].arg))) =>
            l[i].arg = WithoutFenceLines(Trim(l[i - 1].arg))

\* C16: on every endpoint that retries the generation call (the file routes,
\* /speak and the streaming connection) a generated text that starts and ends
\* with the fence once trimmed is handed to the synthesis call without its
\* first and its last line, whatever its number of lines, and the shift and
\* pop of one implementation and the slice of the other give the same text.
C16_FenceLinesRemoved ==
    /\ route \in RetryRoutes => FenceStripped(log)
    /\ FenceStripped(liveLog)
    /\ \A raw \in GenTexts : StripFenceShiftPop(Trim(raw)) = StripFenceSlice(Trim(raw))

C18_ChunksForwarded == wsState = "open" => upstream = [i \in 1..chunksIn |-> i]

\* the entries of a list are a user entry followed by an assistant entry, for
\* one Turn after the other
UserAssistantPairs(h) ==
    /\ Len(h) % 2 = 0
    /\ \A i \in DOMAIN h : h[i].role = IF i % 2 = 1 THEN "user" ELSE "assistant"

\* C19: in the terminal chat programs a Turn that failed, in the generation
\* call or in the speech of the reply, has left conversationHistory as it was
\* when the line was read, so that whenever the next line is awaited the list
\* is made of one user entry followed by one assistant entry per Turn that
\* succeeded.
C19_FailedTurnLeavesHistory ==
    /\ lastTurn = "failed" => conversationHistory = historyAtPrompt
    /\ chatPc = "prompt" => UserAssistantPairs(conversationHistory)

\* s is the beginning of t
IsPrefix(s, t) == Len(s) <= Len(t) /\ \A i \in DOMAIN s : s[i] = t[i]

\* C20: in the terminal chat programs conversationHistory only grows at its
\* end, no entry of it is ever changed or removed, and every generation call
\* is given the content of every entry of the list, in the order of the list,
\* the last one being the line just read.
C20_WholeHistorySent ==
    [][/\ IsPrefix(conversationHistory, conversationHistory')
       /\ (chatPc = "prompt" /\ chatPc' = "gen") =>
             /\ Len(contents') = Len(conversationHistory')
             /\ \A i \in DOMAIN contents' : contents'[i] = conversationHistory'[i].content
             /\ contents'[Len(contents')] = userText']_vars

\* the generation call of the third line typed into mychat is given five
\* entries: the four of the two Turns before it, then the line just read
C20_Witness ==
    /\ chatPc = "gen"
    /\ turns = 3
    /\ Len(contents) = 5
    /\ contents[5] = userText
    /\ server = "mychat"

\* C21: the loop of a terminal chat program has ended exactly when the last
\* line read is the string exit as typed, letter for letter; after every other
\* line, EXIT and Exit among them, the loop goes on.
C21_ExitLiteralOnly == turns > 0 => (chatPc = "closed" <=> userText = ExitWord)

\* the letters of exit in either case, position by position
ExitInAnyCase == {<<a, b, c, d>> : a \in {"e", "E"}, b \in {"x", "X"}, c \in {"i", "I"},
                                   d \in {"t", "T"}}

\* C21 (amended): the loop of a terminal chat program has ended exactly when
\* the last line read is exit in any mix of upper and lower case, with nothing
\* before or after it; after every other line the loop goes on.
C21_ExitAnyCase == turns > 0 => (chatPc = "closed" <=> userText \in ExitInAnyCase)

\* the line ExiT has ended the loop, after a line exit followed by a space
\* that was taken as a Turn
C21_Witness ==
    /\ chatPc = "closed"
    /\ userText = <<"E", "x", "i", "T">>
    /\ turns = 2
    /\ conversationHistory[1].content = <<"e", "x", "i", "t", SP>>

\* the language of the first word of a transcription that carries one, en
\* when no word does
FirstTagged(words) ==
    LET tagged == {i \in DOMAIN words : words[i].language # NoLang}
    IN  IF tagged = {} THEN "en"
        ELSE words[CHOOSE i \in tagged : \A j \in tagged : i <= j].language

\* C22: in /transcribe-file the spoken-language code the generation
\* instruction is built with is the language of the first transcribed word
\* that carries a language, and en when no word carries one: a later word
\* never replaces it.
C22_SpokenLangIsFirstTagged ==
    route \in StrictRoutes =>
        \A i \in DOMAIN log :
            log[i].op = "sttOk" => spokenLangCode = FirstTagged(log[i].arg)

\* the voice profiles the table defines
Profiles == {VOICE_MAP[k] : k \in VoiceKeys}

\* C23: a target-language code gets a voice profile exactly when it is one of
\* the 11 keys of the voice table. Any other code, the names of inherited
\* object properties among them, is a miss: a strict route answers 400, a
\* lenient one goes on with the profile of en, so that the synthesis call is
\* only ever made with one of the 11 profiles of the table.
C23_OnlyTableKeysResolve ==
    /\ Cardinality(VoiceKeys) = 11
    /\ (route \in RetryRoutes /\ Count(log, "synth") > 0) => ttsVoiceConfig \in Profiles
    /\ Count(liveLog, "synth") > 0 => liveVoice \in Profiles
    /\ (route \in StrictRoutes /\ req.hasFile /\ OrEn(req.code) \notin VoiceKeys) =>
          response.status = 400
    /\ (route \in {"he_raw", "enh_speak"} /\ pc # "done" /\ UnknownCode(req.code)) =>
          ttsVoiceConfig = VOICE_MAP["en"]

\* the waits of a log, in order, in milliseconds
Waits(l) == [i \in 1..Count(l, "wait") |-> Only(l, {"wait"})[i].arg]

BackoffSequence(l, n) ==
    /\ Count(l, "wait") <= MAX_RETRIES - 1
    /\ Count(l, "wait") = IF Count(l, "genFail") = n THEN n - 1 ELSE Count(l, "genFail")
    /\ \A k \in DOMAIN Waits(l) : Waits(l)[k] = (2 ^ (k - 1)) * 1000
    /\ \A i \in DOMAIN l : l[i].op = "wait" => (i > 1 /\ l[i - 1].op = "genFail")

C25_TurnReturnsToPrompt == lastTurn = "running" => chatPc \in {"gen", "speak"}

\* C26: on a streaming connection the guard is set by the step that starts
\* the first Turn and no step clears it: no step starts a second Turn, whether
\* the first one is in flight or has ended.
C26_GuardNeverCleared ==
    [][/\ ttsResponseSent => ttsResponseSent'
       /\ turnsStarted' <= 1
       /\ ttsResponseSent' <=> (turnsStarted' = 1)
       /\ ttsResponseSent => turnsStarted' = turnsStarted]_vars

\* the Turn of the connection has sent its audio, and a final transcript
\* event that arrived after it has started no Turn
C26_Witness ==
    /\ livePc = "done"
    /\ turnsStarted = 1
    /\ \E i \in DOMAIN frames : frames[i].kind = "audio"
    /\ unanswered
    /\ liveText # turnText
    /\ wsState = "open"

\* C27: once the client connection of a streaming connection has closed, no
\* step hands a frame to ws.send: a Turn that was in flight when the client
\* closed ends without trying to send its audio or an error frame.
C27_NoFrameAfterClose == [][wsState = "closed" => frames' = frames]_vars

\* C28: when a file route has answered a request whose audio was stored in a
\* temporary file, the file is no longer on disk, whatever the answer is:
\* success, empty transcript, unsupported target-language code, or a failure of
\* the transcription, generation or synthesis call.
C28_TempFileGone ==
    (route \in FileRoutes /\ pc = "done" /\ (req.hasFile \/ req.wav)) => ~fileExists

\* C29: of two /process-raw-audio requests handled at the same time, each
\* has the bytes it received transcribed, never those of the other and never a
\* file the other has deleted, even when both arrive in the same millisecond.
C29_OwnAudioTranscribed == \A i \in RawRequests : heard[i] \in {NoFile, i}

\* C30: on the endpoints that fall back to the profile of en for an unknown
\* code (/process-raw-audio, /speak, /live-stt) the language code the
\* generation instruction is built with is the key of the voice profile the
\* reply is synthesized with.
C30_InstructionMatchesVoice ==
    /\ (route \in {"he_raw", "enh_speak"} /\ Count(log, "gen") > 0) =>
          ttsVoiceConfig.key = targetLangCode
    /\ Count(liveLog, "gen") > 0 => liveVoice.key = liveTarget

====
